---- MODULE Spec2Model ----
(***************************************************************************)
(* Model of models/demo_test_vectors.h: five static const float arrays of  *)
(* ten elements each and the count macro DEMO_N_TEST_VECTORS.              *)
(*                                                                         *)
(* A decimal literal d.dddddddd is held as the integer d.dddddddd * 10^8.  *)
(* A float is held as [neg, man, exp], value (-1)^neg * man * 2^exp, with  *)
(* man in [2^23, 2^24) (24 significant bits) or man = 0 for zero.          *)
(***************************************************************************)
EXTENDS Integers, Sequences, FiniteSets, TLC

\* ------------------------------------------------------------- bounds
\* Number of concurrent readers in ConcSpec.
NReaders == 2

\* Mutant: the count macro one more than the arrays that follow it.
DEMO_N_TEST_VECTORS_OffByOne == 5 + 1

\* --------------------------------------------------------- the header
DEMO_N_TEST_VECTORS == 5

\* Mutant: two digits of the first literal transposed.
demo_test_input_0_Transposed ==
    [suffix |-> 0, const |-> TRUE, len |-> 10,
     init |-> << -16711890, 14671369, 120650899, -81693566, 36867329,
                 -39333880, 2874482, 127845192, 19109906, 4643655 >>]


demo_test_input_0 ==
    [suffix |-> 0, const |-> TRUE, len |-> 10,
     init |-> << -16711809, 14671369, 120650899, -81693566, 36867329,
                 -39333880, 2874482, 127845192, 19109906, 4643655 >>]

demo_test_input_1 ==
    [suffix |-> 1, const |-> TRUE, len |-> 10,
     init |-> << -135985613, 74625355, 64548421, 216325474, -30777824,
                 21915033, 24938369, 157745326, -9529553, 27902153 >>]

\* Mutant: the values of test input 1 emitted again under suffix 2.
demo_test_input_2_Duplicate ==
    [suffix |-> 2, const |-> TRUE, len |-> 10,
     init |-> << -135985613, 74625355, 64548421, 216325474, -30777824,
                 21915033, 24938369, 157745326, -9529553, 27902153 >>]


demo_test_input_2 ==
    [suffix |-> 2, const |-> TRUE, len |-> 10,
     init |-> << 60789651, 18660912, -44643360, 19408999, 107363176,
                 -102651525, 13296968, -70012081, 119504666, -152318692 >>]

\* Mutant: the integer and first fractional digit of the eighth literal
\* exchanged (-9.21880605 for -2.19880605).
demo_test_input_3_OutOfRange ==
    [suffix |-> 3, const |-> TRUE, len |-> 10,
     init |-> << -55892187, 37721187, 156552398, -6575026, -55519950,
                 188115704, -144801390, -921880605, 44001445, -50205421 >>]


demo_test_input_3 ==
    [suffix |-> 3, const |-> TRUE, len |-> 10,
     init |-> << -55892187, 37721187, 156552398, -6575026, -55519950,
                 188115704, -144801390, -219880605, 44001445, -50205421 >>]

\* Mutant: the last initializer dropped; the declarator still says 10.
demo_test_input_4_Short ==
    [suffix |-> 4, const |-> TRUE, len |-> 10,
     init |-> << -102123284, 70835644, 24380071, -56407863, -128030443,
                 87245733, 65020120, -9917586, 184663701 >>]


demo_test_input_4 ==
    [suffix |-> 4, const |-> TRUE, len |-> 10,
     init |-> << -102123284, 70835644, 24380071, -56407863, -128030443,
                 87245733, 65020120, -9917586, 184663701, -107008481 >>]

\* The array declarations of the header, in declaration order.
Declarations ==
    << demo_test_input_0, demo_test_input_1, demo_test_input_2,
       demo_test_input_3, demo_test_input_4 >>

\* The suffixes n for which an object demo_test_input_n is declared.
Suffixes == { Declarations[k].suffix : k \in 1..Len(Declarations) }

\* The declaration of demo_test_input_n.
Decl(n) == CHOOSE d \in { Declarations[k] : k \in 1..Len(Declarations) } : d.suffix = n

\* ------------------------------------------- decimal literal -> float
Abs(n) == IF n < 0 THEN -n ELSE n

FloatZero == [neg |-> FALSE, man |-> 0, exp |-> 0]

\* (m + r / 10^8) * 2^e is the magnitude; double until m has 24 bits.
RECURSIVE Normalise(_, _, _)
Normalise(m, r, e) ==
    IF m >= 2^23 THEN [man |-> m, rem |-> r, exp |-> e]
    ELSE Normalise(2 * m + (IF 2 * r >= 10^8 THEN 1 ELSE 0),
                   (2 * r) % 10^8, e - 1)

\* Round to nearest, ties to even, on the remainder left by Normalise.
RoundNearestEven(x) ==
    LET up == 2 * x.rem > 10^8 \/ (2 * x.rem = 10^8 /\ x.man % 2 = 1)
        m  == IF up THEN x.man + 1 ELSE x.man
    IN IF m = 2^24 THEN [man |-> 2^23, exp |-> x.exp + 1]
       ELSE [man |-> m, exp |-> x.exp]

\* The float a literal with suffix f denotes (literals below 2^23 in magnitude).
ToFloat(n) ==
    IF n = 0 THEN FloatZero
    ELSE LET x == RoundNearestEven(Normalise(Abs(n) \div 10^8, Abs(n) % 10^8, 0))
         IN [neg |-> n < 0, man |-> x.man, exp |-> x.exp]

\* Mutant: the initializers taken from the second on, one place early.
ObjectShifted(d) ==
    [k \in 1..d.len |-> IF k + 1 <= Len(d.init) THEN ToFloat(d.init[k + 1]) ELSE FloatZero]

\* The object a declaration creates: the initializers converted in order,
\* the elements past the last initializer zero.
Object(d) ==
    [k \in 1..d.len |-> IF k <= Len(d.init) THEN ToFloat(d.init[k]) ELSE FloatZero]

\* Static storage as it is when the program starts.
StaticInit == [n \in Suffixes |-> Object(Decl(n))]

\* Mutant: the const qualifier ignored.
WritableAlways(n) == TRUE

\* An assignment to an element is translated only for a non-const object.
Writable(n) == ~Decl(n).const

\* The value of the expression demo_test_input_n[k], k zero-based.
Load(m, n, k) == m[n][k + 1]

\* ------------------------------------------------------------- state
VARIABLES
    mem,      \* static storage: suffix -> sequence of floats
    pc,       \* reader -> "idle" | "reading"
    idx,      \* reader -> index of the vector being read
    buf,      \* reader -> the elements read so far
    first,    \* index -> the values of the first completed read (<<>>: none)
    refused   \* whether an assignment to an element has been refused

vars == << mem, pc, idx, buf, first, refused >>

Readers == 1..NReaders

\* Values a harness might try to store.
StoreValues == { FloatZero, ToFloat(10^8) }

Init ==
    /\ mem = StaticInit
    /\ pc = [r \in Readers |-> "idle"]
    /\ idx = [r \in Readers |-> 0]
    /\ buf = [r \in Readers |-> << >>]
    /\ first = [i \in 0..(DEMO_N_TEST_VECTORS - 1) |-> << >>]
    /\ refused = FALSE

\* Reader r starts on vector i, i below the count macro.
Begin(r, i) ==
    /\ pc[r] = "idle"
    /\ pc' = [pc EXCEPT ![r] = "reading"]
    /\ idx' = [idx EXCEPT ![r] = i]
    /\ buf' = [buf EXCEPT ![r] = << >>]
    /\ UNCHANGED << mem, first, refused >>

\* Reader r reads the next element of its vector.
ReadElem(r) ==
    /\ pc[r] = "reading"
    /\ Len(buf[r]) < Len(mem[idx[r]])
    /\ buf' = [buf EXCEPT ![r] = Append(@, Load(mem, idx[r], Len(buf[r])))]
    /\ UNCHANGED << mem, pc, idx, first, refused >>

Complete(r) == pc[r] = "reading" /\ Len(buf[r]) = Len(mem[idx[r]])

\* Reader r has the whole vector and goes idle.
Finish(r) ==
    /\ Complete(r)
    /\ pc' = [pc EXCEPT ![r] = "idle"]
    /\ UNCHANGED << mem, idx, buf, first, refused >>

\* As Finish, and the values are noted if this was the first read of the index.
FinishNoted(r) ==
    /\ Complete(r)
    /\ pc' = [pc EXCEPT ![r] = "idle"]
    /\ first' = IF first[idx[r]] = << >>
                THEN [first EXCEPT ![idx[r]] = buf[r]]
                ELSE first
    /\ UNCHANGED << mem, idx, buf, refused >>

\* Reader r assigns v to the element it is about to read: done if the object
\* is writable, refused by the translator if it is const.
Store(r, v) ==
    /\ pc[r] = "reading"
    /\ Len(buf[r]) < Len(mem[idx[r]])
    /\ IF Writable(idx[r])
       THEN mem' = [mem EXCEPT ![idx[r]][Len(buf[r]) + 1] = v] /\ UNCHANGED refused
       ELSE refused' = TRUE /\ UNCHANGED mem
    /\ UNCHANGED << pc, idx, buf, first >>

Indices == 0..(DEMO_N_TEST_VECTORS - 1)

\* One harness thread, reading vector after vector.
Next ==
    \/ \E i \in Indices : Begin(1, i)
    \/ ReadElem(1)
    \/ FinishNoted(1)
    \/ \E v \in StoreValues : Store(1, v)

Spec == Init /\ [][Next]_vars

\* Any number of readers, interleaved element by element.
ReaderStep(r) ==
    \/ \E i \in Indices : Begin(r, i)
    \/ ReadElem(r)
    \/ Finish(r)
    \/ \E v \in StoreValues : Store(r, v)

ConcNext == \E r \in Readers : ReaderStep(r)

ConcSpec == Init /\ [][ConcNext]_vars

\* ------------------------------------------------------ the properties
\* Reader r holds all the elements of the vector it last chose.
HasVector(r) == Len(buf[r]) > 0 /\ Len(buf[r]) = Len(mem[idx[r]])

\* |a| <= |b| for floats in the representation above.
FloatAbsLeq(a, b) ==
    \/ a.man = 0
    \/ /\ b.man # 0
       /\ \/ a.exp < b.exp
          \/ a.exp = b.exp /\ a.man <= b.man

\* C1: for every valid index i in 0..4 the vector demo_test_input_i has exactly
\* 10 elements: the declared length is 10, the initializer lists exactly 10
\* values, the stored object has 10 elements and so has every complete read.
C1_TenElements ==
    /\ \A k \in 1..Len(Declarations) :
          Declarations[k].len = 10 /\ Len(Declarations[k].init) = 10
    /\ \A i \in Indices : Len(mem[i]) = 10
    /\ \A r \in Readers : HasVector(r) => Len(buf[r]) = 10

\* C1 witness: the harness has finished reading the last vector.
C1_Witness == pc[1] = "idle" /\ idx[1] = 4 /\ Len(buf[1]) = 10

\* C2: the count macro is 5 and equals the number of arrays defined; their
\* suffixes are exactly 0..4, contiguous from zero in declaration order, none
\* missing, repeated or extra, and storage holds exactly those objects.
C2_CountMatchesData ==
    /\ DEMO_N_TEST_VECTORS = 5
    /\ Len(Declarations) = DEMO_N_TEST_VECTORS
    /\ \A k \in 1..Len(Declarations) : Declarations[k].suffix = k - 1
    /\ Cardinality(Suffixes) = Len(Declarations)
    /\ Suffixes = 0..(DEMO_N_TEST_VECTORS - 1)
    /\ DOMAIN mem = 0..(DEMO_N_TEST_VECTORS - 1)
    /\ \A r \in Readers : idx[r] \in DOMAIN mem

\* C2 witness: every index below the count has been read to the end, the
\* last of them just now.
C2_Witness ==
    /\ \A i \in Indices : first[i] # << >>
    /\ idx[1] = DEMO_N_TEST_VECTORS - 1
    /\ HasVector(1)

\* C4: index 0 yields a vector whose first element is -0.16711809 and whose
\* tenth and last element is 0.04643655, as literals of 8 fractional digits;
\* a read of index 0 returns their floats, -11215105 * 2^-26 and
\* 12465216 * 2^-28.
C4_Index0FirstLast ==
    /\ Decl(0).init[1] = -16711809
    /\ Len(Decl(0).init) = 10
    /\ Decl(0).init[10] = 4643655
    /\ \A r \in Readers : (idx[r] = 0 /\ HasVector(r)) =>
          /\ buf[r][1] = [neg |-> TRUE, man |-> 11215105, exp |-> -26]
          /\ buf[r][Len(buf[r])] = [neg |-> FALSE, man |-> 12465216, exp |-> -28]

\* C4 witness: the harness holds all of vector 0.
C4_Witness == pc[1] = "reading" /\ idx[1] = 0 /\ HasVector(1)

\* C5: index 4 yields a vector whose third element (position 2 from zero) is
\* 0.24380071 as a literal of 8 fractional digits; a read of index 4 returns
\* its float, 16361189 * 2^-26, in third place.
C5_Index4Third ==
    /\ Decl(4).init[3] = 24380071
    /\ Load(mem, 4, 2) = [neg |-> FALSE, man |-> 16361189, exp |-> -26]
    /\ \A r \in Readers : (idx[r] = 4 /\ Len(buf[r]) >= 3) =>
          buf[r][3] = [neg |-> FALSE, man |-> 16361189, exp |-> -26]

\* C5 witness: the harness has just read the third element of vector 4.
C5_Witness == pc[1] = "reading" /\ idx[1] = 4 /\ Len(buf[1]) = 3

\* C6: re-reading an index returns identical values: after any sequence of
\* reads, a complete read of index i holds the 10 values the first read of i
\* returned, and storage is as it was at start in every reachable state.
C6_ReReadIdentical ==
    /\ mem = StaticInit
    /\ \A r \in Readers :
          (HasVector(r) /\ first[idx[r]] # << >>) =>
              /\ buf[r] = first[idx[r]]
              /\ Len(buf[r]) = 10

\* C6 witness: the harness holds a second read of an index, after a read of
\* another index and after an assignment was attempted.
C6_Witness ==
    /\ pc[1] = "reading"
    /\ HasVector(1)
    /\ first[idx[1]] # << >>
    /\ \E j \in Indices : j # idx[1] /\ first[j] # << >>
    /\ refused

\* What a reader may do without writing.
ReadOnlyStep(r) ==
    \/ \E i \in Indices : Begin(r, i)
    \/ ReadElem(r)
    \/ Finish(r)

\* Every reader has so far observed exactly the declared values of its
\* vector, in order, and its next read step is enabled whatever the others do.
C7_Observed ==
    \A r \in Readers :
        /\ Len(buf[r]) <= Len(StaticInit[idx[r]])
        /\ \A k \in 1..Len(buf[r]) : buf[r][k] = StaticInit[idx[r]][k]
        /\ ENABLED ReadOnlyStep(r)

\* A step changes the position of at most one reader and never storage.
C7_NoInterference ==
    /\ mem' = mem
    /\ \A r, q \in Readers :
          (r # q /\ << pc[r], idx[r], buf[r] >>' # << pc[r], idx[r], buf[r] >>)
              => << pc[q], idx[q], buf[q] >>' = << pc[q], idx[q], buf[q] >>

\* C7: any number of readers may read at once with no coordination: under
\* every interleaving each reader of index i observes exactly the declared
\* values of vector i, no reader is ever blocked, and no step of one reader
\* affects another.
C7_ConcurrentReaders == [] C7_Observed /\ [][C7_NoInterference]_vars

\* C7 witness: two readers are part way through the same vector at different
\* places, and an assignment was attempted meanwhile.
C7_Witness ==
    /\ pc[1] = "reading" /\ pc[2] = "reading"
    /\ idx[1] = idx[2]
    /\ 0 < Len(buf[1]) /\ Len(buf[1]) < Len(buf[2]) /\ Len(buf[2]) < 10
    /\ refused

\* C8: every element of every vector lies in [-2.5, 2.5]: the literals lie in
\* [-250000000, 250000000] at 8 fractional digits, and the floats stored and
\* read are no larger in magnitude than 2.5f.
C8_ElementsInRange ==
    /\ \A k \in 1..Len(Declarations) : \A j \in 1..Len(Declarations[k].init) :
          /\ Declarations[k].init[j] >= -250000000
          /\ Declarations[k].init[j] <= 250000000
    /\ \A i \in DOMAIN mem : \A j \in DOMAIN mem[i] :
          FloatAbsLeq(mem[i][j], ToFloat(250000000))
    /\ \A r \in Readers : \A j \in 1..Len(buf[r]) :
          FloatAbsLeq(buf[r][j], ToFloat(250000000))

\* C8 witness: the harness has read the element of largest magnitude,
\* -2.19880605, which is beyond 2 in magnitude.
C8_Witness ==
    /\ idx[1] = 3 /\ Len(buf[1]) = 8
    /\ buf[1][8] = ToFloat(-219880605)
    /\ ~FloatAbsLeq(buf[1][8], ToFloat(200000000))

\* C9: the five vectors are pairwise distinct as sequences: for i # j in 0..4
\* the literals, the stored floats and the completed reads of i and j differ
\* in at least one position.
C9_PairwiseDistinct ==
    \A i, j \in Indices :
        i # j =>
            /\ Decl(i).init # Decl(j).init
            /\ \E k \in 1..10 : mem[i][k] # mem[j][k]
            /\ (first[i] # << >> /\ first[j] # << >>) => first[i] # first[j]

\* C9 witness: vectors 1 and 2 have both been read to the end.
C9_Witness == first[1] # << >> /\ first[2] # << >> /\ pc[1] = "idle"

====
